---- MODULE Spec2Model ----
(***************************************************************************)
(* A model of src/myModule.py: the execution of the module's top-level     *)
(* statements, the construction of its classes and their forward passes.   *)
(*                                                                         *)
(* Tensors are modelled by their shape (a sequence of dimension sizes);    *)
(* a result tensor also carries the formula that produced it (op, temp,    *)
(* w).  The tensor library is modelled by what it does to shapes: it       *)
(* broadcasts, reduces, reshapes or raises.  The interpreter is the one    *)
(* the file was written for (re.template is importable, torch and          *)
(* transformers are installed).                                            *)
(***************************************************************************)
EXTENDS Integers, Sequences, FiniteSets, TLC

\* Bounds of the model.
MaxDim == 3
MaxRank == 3
MaxTemp == 2
MaxLayers == 2

\* temp=0.05, the default of UnsupSimCSE and SupSimCSE, in hundredths.
DefaultTemp == 5
\* self.lamb = 0.1 of TotalLoss, in hundredths.
FixedLamb == 10

VARIABLES pc, loadExc, defined, obj, built, last, probe

vars == <<pc, loadExc, defined, obj, built, last, probe>>

---------------------------------------------------------------------------
\* Values

Dims == 1..MaxDim

Shapes == UNION {[1..r -> Dims] : r \in 1..MaxRank}

ShapesOfRank(r) == [1..r -> Dims]

Temps == 1..MaxTemp

\* Weight vectors: up to MaxLayers entries, each 1 or 2.
WeightVals == UNION {[1..n -> {1, 2}] : n \in 1..MaxLayers}

\* An argument: a tensor of a shape, a 1-d tensor of weights, an iterable of
\* tensors (parts), or None (an omitted optional argument).
None == [given |-> FALSE, shape |-> <<>>, vals |-> <<>>, parts |-> <<>>]

T(s) == [given |-> TRUE, shape |-> s, vals |-> <<>>, parts |-> <<>>]

W(v) == [given |-> TRUE, shape |-> <<Len(v)>>, vals |-> v, parts |-> <<>>]

Params(p) == [given |-> TRUE, shape |-> <<>>, vals |-> <<>>, parts |-> p]

\* A result tensor: its shape and the formula that computed it.
Val(s, op, temp, w) == [shape |-> s, op |-> op, temp |-> temp, w |-> w]

\* The outcome of a call: what it raised or returned, and how many encoder
\* calls (enc) and cosine-similarity computations (sim) it had started.
Raise(exc, enc, sim) ==
    [kind |-> "raise", exc |-> exc, ret |-> <<>>, enc |-> enc, sim |-> sim]

RetTensor(v, enc, sim) ==
    [kind |-> "tensor", exc |-> "", ret |-> <<v>>, enc |-> enc, sim |-> sim]

RetTuple(loss, s, enc, sim) ==
    [kind |-> "tuple", exc |-> "", ret |-> <<loss, s>>, enc |-> enc, sim |-> sim]

---------------------------------------------------------------------------
\* The tensor library, on shapes

RECURSIVE Prod(_)
Prod(s) == IF s = <<>> THEN 1 ELSE Head(s) * Prod(Tail(s))

Front(s) == SubSeq(s, 1, Len(s) - 1)

Max(a, b) == IF a >= b THEN a ELSE b

\* tensor.unsqueeze(i): a dimension of size 1 inserted before position i.
Unsqueeze(s, i) == SubSeq(s, 1, i) \o <<1>> \o SubSeq(s, i + 1, Len(s))

PadLeft(s, n) ==
    [k \in 1..n |-> IF k <= n - Len(s) THEN 1 ELSE s[k - (n - Len(s))]]

Broadcastable(a, b) ==
    LET n == Max(Len(a), Len(b))
        pa == PadLeft(a, n)
        pb == PadLeft(b, n)
    IN  \A k \in 1..n : pa[k] = pb[k] \/ pa[k] = 1 \/ pb[k] = 1

Broadcast(a, b) ==
    LET n == Max(Len(a), Len(b))
        pa == PadLeft(a, n)
        pb == PadLeft(b, n)
    IN  [k \in 1..n |-> Max(pa[k], pb[k])]

\* F.cosine_similarity(x1, x2, dim=-1): broadcast, then reduce the last axis.
CosSimOK(a, b) == Broadcastable(a, b) /\ Max(Len(a), Len(b)) >= 1

CosSimShape(a, b) == Front(Broadcast(a, b))

\* tensor.reshape(to): the element counts must agree.
ReshapeOK(s, to) == Prod(s) = Prod(to)

\* F.cross_entropy(sim, arange(sim.shape[0])): sim is [N, C] and every label
\* i < N must be a class, i < C.
CrossEntropyExc(s) ==
    IF Len(s) /= 2 THEN "RuntimeError"
    ELSE IF s[1] > s[2] THEN "IndexError"
    ELSE ""

---------------------------------------------------------------------------
\* Loading the module: its top-level statements in order

Classes ==
    {"UnsupContrastiveLoss", "SupContrastiveLoss", "UnsupSimCSE", "SupSimCSE",
     "UniformSampler", "WeightedSampler", "SGLossOpt2", "SGLossOpt3",
     "SGLossOpt3Simplified", "RegHiddenLoss", "RegLoss", "TotalLoss",
     "SelfGuidedContraModel"}

\* The attributes of torch.nn the file uses.
NNAttrs == {"Module", "Sequential", "Linear", "GELU"}

Stmts ==
    << [kind |-> "import", name |-> "imports", base |-> ""],
       [kind |-> "class", name |-> "UnsupContrastiveLoss", base |-> "Module"],
       [kind |-> "class", name |-> "SupContrastiveLoss", base |-> "Module"],
       [kind |-> "class", name |-> "UnsupSimCSE", base |-> "Module"],
       [kind |-> "class", name |-> "SupSimCSE", base |-> "Module"],
       [kind |-> "class", name |-> "UniformSampler", base |-> "Module"],
       [kind |-> "class", name |-> "WeightedSampler", base |-> "Module"],
       [kind |-> "class", name |-> "SGLossOpt2", base |-> "Module"],
       [kind |-> "class", name |-> "SGLossOpt3", base |-> "Module"],
       [kind |-> "class", name |-> "SGLossOpt3Simplified", base |-> "Module"],
       [kind |-> "class", name |-> "RegHiddenLoss", base |-> "Moduke"],
       [kind |-> "class", name |-> "RegLoss", base |-> "Module"],
       [kind |-> "class", name |-> "TotalLoss", base |-> "Module"],
       [kind |-> "class", name |-> "SelfGuidedContraModel", base |-> "Module"] >>

\* A class statement evaluates its base, nn.<base>, before it binds the name.
StmtExc(st) ==
    IF st.kind = "class" /\ st.base \notin NNAttrs THEN "AttributeError" ELSE ""

ExecStmt ==
    /\ loadExc = ""
    /\ pc <= Len(Stmts)
    /\ LET st == Stmts[pc]
           exc == StmtExc(st)
       IN  IF exc /= ""
           THEN /\ loadExc' = exc
                /\ UNCHANGED <<pc, defined>>
           ELSE /\ pc' = pc + 1
                /\ defined' = IF st.kind = "class"
                              THEN defined \cup {st.name}
                              ELSE defined
                /\ UNCHANGED loadExc
    /\ UNCHANGED <<obj, built, last, probe>>

LoadEnded == loadExc /= "" \/ pc > Len(Stmts)

---------------------------------------------------------------------------
\* Construction: each class's __init__

\* Pretrained-model names: one the model hub knows and one it does not.
HubModels == {"bert-base-uncased"}

PretrainedNames == HubModels \cup {"no-such-model"}

Object(c, cfg) == [cls |-> c, cfg |-> cfg]

NoObject == [cls |-> "", cfg |-> [none |-> TRUE]]

\* Modules to hand to TotalLoss and SelfGuidedContraModel.
LossObjects ==
    {Object(c, [temp |-> t]) : c \in {"SGLossOpt2", "SGLossOpt3"}, t \in Temps}

SamplerObjects == {Object("UniformSampler", [none |-> TRUE])}

CtorArgs(c) ==
    CASE c \in {"UnsupContrastiveLoss", "SupContrastiveLoss", "SGLossOpt2",
                "SGLossOpt3", "SGLossOpt3Simplified"} ->
            [temp : Temps]
      [] c \in {"UnsupSimCSE", "SupSimCSE"} ->
            [pretraind_model : PretrainedNames, temp : Temps \cup {DefaultTemp}]
      [] c = "WeightedSampler" -> [weights : WeightVals]
      [] c = "TotalLoss" ->
            [sgloss : LossObjects, sampler : SamplerObjects,
             regloss : {Object("RegLoss", [none |-> TRUE])},
             lamb : {FixedLamb, 2 * FixedLamb}]
      [] c = "SelfGuidedContraModel" ->
            [model_name : PretrainedNames,
             total_loss : {Object("RegLoss", [none |-> TRUE])},
             hidden : Dims]
      [] OTHER -> {[none |-> TRUE]}

Built(cfg) == [kind |-> "object", exc |-> "", cfg |-> cfg]

InitRaise(exc) == [kind |-> "raise", exc |-> exc, cfg |-> [none |-> TRUE]]

\* AutoTokenizer.from_pretrained(name): a tokenizer, or OSError for a name
\* the hub does not know.
FromPretrainedExc(name) == IF name \in HubModels THEN "" ELSE "OSError"

TempInit(a) == Built([temp |-> a.temp])

UnsupSimCSEInit(a) ==
    IF FromPretrainedExc(a.pretraind_model) /= ""
    THEN InitRaise(FromPretrainedExc(a.pretraind_model))
    ELSE Built([temp |-> a.temp,
                bert |-> "AutoTokenizer",
                contra_loss |-> Object("UnsupContrastiveLoss", [temp |-> a.temp])])

SupSimCSEInit(a) ==
    IF FromPretrainedExc(a.pretraind_model) /= ""
    THEN InitRaise(FromPretrainedExc(a.pretraind_model))
    ELSE Built([temp |-> a.temp,
                bert |-> "AutoTokenizer",
                contra_loss |-> Object("SupContrastiveLoss", [temp |-> a.temp])])

WeightedSamplerInit(a) == Built([weights |-> a.weights])

NoArgInit(a) == Built([none |-> TRUE])

\* TotalLoss.__init__ never calls super().__init__(): assigning a Module to
\* an attribute of a Module that was not initialised raises.
TotalLossInit(a) == InitRaise("AttributeError")

\* SelfGuidedContraModel.__init__ calls super.__init__(), the unbound
\* initialiser of the type super, with no argument.
SelfGuidedContraModelInit(a) == InitRaise("TypeError")

ConstructOutcome(c, a) ==
    CASE c \in {"UnsupContrastiveLoss", "SupContrastiveLoss", "SGLossOpt2",
                "SGLossOpt3", "SGLossOpt3Simplified"} -> TempInit(a)
      [] c = "UnsupSimCSE" -> UnsupSimCSEInit(a)
      [] c = "SupSimCSE" -> SupSimCSEInit(a)
      [] c = "WeightedSampler" -> WeightedSamplerInit(a)
      [] c = "TotalLoss" -> TotalLossInit(a)
      [] c = "SelfGuidedContraModel" -> SelfGuidedContraModelInit(a)
      [] OTHER -> NoArgInit(a)

NoProbe ==
    [set |-> FALSE, args |-> <<>>, out |-> Raise("", 0, 0), between |-> FALSE]

\* X(args) for a class X the load has bound, once the caller is done with
\* the previous call's result: the new object replaces the one held, unless
\* __init__ raises.
Construct ==
    /\ LoadEnded
    /\ last.op = ""
    /\ \E c \in defined : \E a \in CtorArgs(c) :
         LET o == ConstructOutcome(c, a)
         IN  /\ last' = [op |-> "init", cls |-> c, ctor |-> a, args |-> <<>>,
                         out |-> [kind |-> o.kind, exc |-> o.exc, ret |-> <<>>,
                                  enc |-> 0, sim |-> 0]]
             /\ IF o.kind = "object"
                THEN /\ obj' = Object(c, o.cfg)
                     /\ built' = Object(c, o.cfg)
                     /\ probe' = NoProbe
                ELSE UNCHANGED <<obj, built, probe>>
    /\ UNCHANGED <<pc, loadExc, defined>>

---------------------------------------------------------------------------
\* The forward passes.  Each takes the module's attributes (self) and the
\* call's arguments, and gives the call's outcome and the attributes after.

Done(self, o) == [out |-> o, self |-> self]

WithEnc(o, n) == [o EXCEPT !.enc = n]

\* UnsupContrastiveLoss.forward(first, second)
UnsupContrastiveLossForward(self, a) ==
    LET first == Unsqueeze(a[1].shape, 1)
        second == Unsqueeze(a[2].shape, 0)
        sim == CosSimShape(first, second)
    IN  IF ~CosSimOK(first, second) THEN Done(self, Raise("RuntimeError", 0, 1))
        ELSE IF CrossEntropyExc(sim) /= ""
        THEN Done(self, Raise(CrossEntropyExc(sim), 0, 1))
        ELSE Done(self, RetTuple(Val(<<>>, "cross_entropy", self.temp, <<>>),
                                 Val(sim, "cos_sim/temp", self.temp, <<>>), 0, 1))

\* torch.cat(tensors, dim): the tensors are one sequence argument; tensors
\* passed one by one match no signature of cat.
TorchCatExc(asSequence) == IF asSequence THEN "" ELSE "TypeError"

\* SupContrastiveLoss.forward(premise, entail, contra)
SupContrastiveLossForward(self, a) ==
    LET premise == Unsqueeze(a[1].shape, 1)
        entail == Unsqueeze(a[2].shape, 0)
        contra == Unsqueeze(a[3].shape, 0)
        sim_pre_ent == CosSimShape(premise, entail)
        sim_pre_contra == CosSimShape(premise, contra)
        sim_pre_ent_contra ==
            Front(sim_pre_ent) \o <<sim_pre_ent[Len(sim_pre_ent)]
                                    + sim_pre_contra[Len(sim_pre_contra)]>>
    IN  IF ~CosSimOK(premise, entail) THEN Done(self, Raise("RuntimeError", 0, 1))
        ELSE IF ~CosSimOK(premise, contra)
        THEN Done(self, Raise("RuntimeError", 0, 2))
        ELSE IF TorchCatExc(FALSE) /= ""
        THEN Done(self, Raise(TorchCatExc(FALSE), 0, 2))
        ELSE IF Front(sim_pre_ent) /= Front(sim_pre_contra)
        THEN Done(self, Raise("RuntimeError", 0, 2))
        ELSE IF CrossEntropyExc(sim_pre_ent_contra) /= ""
        THEN Done(self, Raise(CrossEntropyExc(sim_pre_ent_contra), 0, 2))
        ELSE Done(self, RetTuple(
                 Val(<<>>, "cross_entropy", self.temp, <<>>),
                 Val(sim_pre_ent_contra, "cat(cos_sim/temp)", self.temp, <<>>),
                 0, 2))

\* self.bert(input_ids=..., attention_mask=..., token_type_ids=...): self.bert
\* is the tokenizer __init__ stored, whose call takes text, not input ids.
BertCall(bert, flat) == [exc |-> "TypeError", pooler_output |-> <<>>]

\* UnsupSimCSE.forward(input_ids, attention_mask, token_type_ids=None)
UnsupSimCSEForward(self, a) ==
    LET input_ids == a[1].shape
        attention_mask == a[2].shape
        token_type_ids == a[3]
    IN  IF Len(input_ids) /= 3
        THEN Done(self, Raise("NotImplementedError", 0, 0))
        ELSE
        LET batch_size == input_ids[1]
            hidden_dim == input_ids[3]
            flat == <<batch_size * 2, hidden_dim>>
            enc == BertCall(self.bert, flat)
            view == <<batch_size, hidden_dim>>
            loss == UnsupContrastiveLossForward(self.contra_loss.cfg,
                                                <<T(view), T(view)>>)
        IN  IF ~ReshapeOK(input_ids, flat)
            THEN Done(self, Raise("RuntimeError", 0, 0))
            ELSE IF ~ReshapeOK(attention_mask, flat)
            THEN Done(self, Raise("RuntimeError", 0, 0))
            ELSE IF token_type_ids.given /\ ~ReshapeOK(token_type_ids.shape, flat)
            THEN Done(self, Raise("RuntimeError", 0, 0))
            ELSE IF ~token_type_ids.given
            THEN Done(self, Raise("UnboundLocalError", 0, 0))
            ELSE IF enc.exc /= "" THEN Done(self, Raise(enc.exc, 1, 0))
            ELSE IF ~ReshapeOK(enc.pooler_output, <<batch_size, 2, hidden_dim>>)
            THEN Done(self, Raise("RuntimeError", 1, 0))
            ELSE Done(self, WithEnc(loss.out, 1))

\* SupSimCSE.forward(input_ids, attention_mask, token_type_ids=None)
SupSimCSEForward(self, a) ==
    LET input_ids == a[1].shape
        attention_mask == a[2].shape
        token_type_ids == a[3]
    IN  IF Len(input_ids) /= 3
        THEN Done(self, Raise("NotImplementedError", 0, 0))
        ELSE
        LET batch_size == input_ids[1]
            hidden_dim == input_ids[3]
            flat == <<batch_size * 3, hidden_dim>>
            enc == BertCall(self.bert, flat)
            view == <<batch_size, hidden_dim>>
            loss == SupContrastiveLossForward(self.contra_loss.cfg,
                                              <<T(view), T(view), T(view)>>)
        IN  IF ~ReshapeOK(input_ids, flat)
            THEN Done(self, Raise("RuntimeError", 0, 0))
            ELSE IF ~ReshapeOK(attention_mask, flat)
            THEN Done(self, Raise("RuntimeError", 0, 0))
            ELSE IF token_type_ids.given /\ ~ReshapeOK(token_type_ids.shape, flat)
            THEN Done(self, Raise("RuntimeError", 0, 0))
            ELSE IF ~token_type_ids.given
            THEN Done(self, Raise("UnboundLocalError", 0, 0))
            ELSE IF enc.exc /= "" THEN Done(self, Raise(enc.exc, 1, 0))
            ELSE IF ~ReshapeOK(enc.pooler_output, <<batch_size, 3, hidden_dim>>)
            THEN Done(self, Raise("RuntimeError", 1, 0))
            ELSE Done(self, WithEnc(loss.out, 1))

\* UniformSampler.forward(hidden_states)
UniformSamplerForward(self, a) ==
    LET hidden_states == a[1].shape
    IN  IF Len(hidden_states) /= 3
        THEN Done(self, Raise("NotImplementedError", 0, 0))
        ELSE Done(self, RetTensor(
                 Val(<<hidden_states[1], hidden_states[3]>>, "mean(dim=1)", 0, <<>>),
                 0, 0))

\* WeightedSampler.forward, were it to measure w before it checks the rank.
WeightedSamplerForwardLenFirst(self, a) ==
    LET hidden_states == a[1].shape
        weights == a[2]
        w == IF weights.given THEN W(self.weights) ELSE weights
    IN  IF ~w.given THEN Done(self, Raise("TypeError", 0, 0))
        ELSE IF Len(hidden_states) /= 3
        THEN Done(self, Raise("NotImplementedError", 0, 0))
        ELSE IF hidden_states[2] /= Len(w.vals)
        THEN Done(self, Raise("NotImplementedError", 0, 0))
        ELSE Done(self, RetTensor(
                 Val(<<>>, "sum(hidden_states*w/sum(w))", 0, w.vals), 0, 0))

\* WeightedSampler.forward, were it to keep the call's weights in
\* self.weights.
WeightedSamplerForwardKeepsWeights(self, a) ==
    LET hidden_states == a[1].shape
        weights == a[2]
        w == IF weights.given THEN W(self.weights) ELSE weights
        kept == IF weights.given THEN [self EXCEPT !.weights = weights.vals]
                ELSE self
    IN  IF Len(hidden_states) /= 3
        THEN Done(kept, Raise("NotImplementedError", 0, 0))
        ELSE IF ~w.given THEN Done(kept, Raise("TypeError", 0, 0))
        ELSE IF hidden_states[2] /= Len(w.vals)
        THEN Done(kept, Raise("NotImplementedError", 0, 0))
        ELSE Done(kept, RetTensor(
                 Val(<<>>, "sum(hidden_states*w/sum(w))", 0, w.vals), 0, 0))

\* WeightedSampler.forward(hidden_states, weights=None)
WeightedSamplerForward(self, a) ==
    LET hidden_states == a[1].shape
        weights == a[2]
        w == IF weights.given THEN W(self.weights) ELSE weights
    IN  IF Len(hidden_states) /= 3
        THEN Done(self, Raise("NotImplementedError", 0, 0))
        ELSE
        LET layer_num == hidden_states[2]
        IN  IF ~w.given THEN Done(self, Raise("TypeError", 0, 0))
            ELSE IF layer_num /= Len(w.vals)
            THEN Done(self, Raise("NotImplementedError", 0, 0))
            ELSE Done(self, RetTensor(
                     Val(<<>>, "sum(hidden_states*w/sum(w))", 0, w.vals), 0, 0))

\* SGLossOpt2.forward(cls, hidden)
SGLossOpt2Forward(self, a) ==
    LET cls == Unsqueeze(a[1].shape, 1)
        hidden == Unsqueeze(a[2].shape, 0)
        sim == CosSimShape(cls, hidden)
    IN  IF ~CosSimOK(cls, hidden) THEN Done(self, Raise("RuntimeError", 0, 1))
        ELSE IF CrossEntropyExc(sim) /= ""
        THEN Done(self, Raise(CrossEntropyExc(sim), 0, 1))
        ELSE Done(self, RetTuple(Val(<<>>, "cross_entropy", self.temp, <<>>),
                                 Val(sim, "cos_sim/temp", self.temp, <<>>), 0, 1))

\* The two similarity tensors SGLossOpt3 and SGLossOpt3Simplified both
\* start with: sim_ci_hik, then sim_ci_hmn stacked from one cosine
\* similarity per row c_i of cls.
SimCiHik(cls, hidden) == CosSimShape(Unsqueeze(cls, 1), hidden)

SimCiHmn(cls, hidden) == <<cls[1]>> \o CosSimShape(Tail(cls), hidden)

\* SGLossOpt3.forward(cls, hidden)
SGLossOpt3Forward(self, a) ==
    LET cls == a[1].shape
        hidden == a[2].shape
    IN  IF Len(hidden) /= 3
        THEN Done(self, Raise("NotImplementedError", 0, 0))
        ELSE
        LET batch_size == hidden[1]
            layer_num == hidden[2]
            sim_ci_hik == SimCiHik(cls, hidden)
            sim_ci_hmn == SimCiHmn(cls, hidden)
        IN  IF ~CosSimOK(Unsqueeze(cls, 1), hidden)
            THEN Done(self, Raise("RuntimeError", 0, 1))
            ELSE IF ~CosSimOK(Tail(cls), hidden)
            THEN Done(self, Raise("RuntimeError", 0, 2))
            ELSE IF ~ReshapeOK(sim_ci_hmn, <<batch_size, batch_size * layer_num>>)
            THEN Done(self, Raise("RuntimeError", 0, 1 + cls[1]))
            ELSE IF \/ Len(sim_ci_hik) < 2
                    \/ sim_ci_hik[1] < batch_size
                    \/ sim_ci_hik[2] < layer_num
            THEN Done(self, Raise("IndexError", 0, 1 + cls[1]))
            ELSE Done(self, RetTensor(Val(<<>>, "mean(loss_list)", 0, <<>>),
                                      0, 1 + cls[1]))

\* SGLossOpt3Simplified.forward(cls, hidden)
SGLossOpt3SimplifiedForward(self, a) ==
    LET cls == a[1].shape
        hidden == a[2].shape
    IN  IF Len(hidden) /= 3
        THEN Done(self, Raise("NotImplementedError", 0, 0))
        ELSE
        LET sim_ci_hmn == SimCiHmn(cls, hidden)
        IN  IF ~CosSimOK(Unsqueeze(cls, 1), hidden)
            THEN Done(self, Raise("RuntimeError", 0, 1))
            ELSE IF ~CosSimOK(Tail(cls), hidden)
            THEN Done(self, Raise("RuntimeError", 0, 2))
            ELSE IF Len(sim_ci_hmn) < 3
            THEN Done(self, Raise("IndexError", 0, 1 + cls[1]))
            ELSE Done(self, RetTensor(Val(<<>>, "loss1+loss2", 0, <<>>),
                                      0, 1 + cls[1]))

Min(a, b) == IF a <= b THEN a ELSE b

\* RegLoss.forward(param1, param2)
RegLossForward(self, a) ==
    LET param1 == a[1].parts
        param2 == a[2].parts
        n == Min(Len(param1), Len(param2))
    IN  IF \E k \in 1..n : ~Broadcastable(param1[k], param2[k])
        THEN Done(self, Raise("RuntimeError", 0, 0))
        ELSE IF n = 0 THEN Done(self, Raise("RuntimeError", 0, 0))
        ELSE Done(self, RetTensor(Val(<<>>, "sqrt(sum(param_list))", 0, <<>>),
                                  0, 0))

\* A call of a loss or sampler module held in an attribute.
SubForward(o, a) ==
    CASE o.cls = "UniformSampler" -> UniformSamplerForward(o.cfg, a)
      [] o.cls = "WeightedSampler" -> WeightedSamplerForward(o.cfg, a)
      [] o.cls = "SGLossOpt2" -> SGLossOpt2Forward(o.cfg, a)
      [] o.cls = "SGLossOpt3" -> SGLossOpt3Forward(o.cfg, a)
      [] o.cls = "SGLossOpt3Simplified" -> SGLossOpt3SimplifiedForward(o.cfg, a)
      [] o.cls = "RegLoss" -> RegLossForward(o.cfg, a)

\* TotalLoss.forward(cls, hiddens, p1, p2)
TotalLossForward(self, a) ==
    LET sampled ==
            IF self.sgloss.cls \notin {"SGLossOpt3", "SGLossOpt3Simplified"}
            THEN SubForward(self.sampler, <<a[2], None>>).out
            ELSE RetTensor(Val(a[2].shape, "hiddens", 0, <<>>), 0, 0)
        sg == SubForward(self.sgloss, <<a[1], T(sampled.ret[1].shape)>>).out
        reg == SubForward(self.regloss, <<a[3], a[4]>>).out
    IN  IF sampled.kind = "raise" THEN Done(self, sampled)
        ELSE IF sg.kind = "raise" THEN Done(self, sg)
        ELSE IF reg.kind = "raise" THEN Done(self, [reg EXCEPT !.sim = sg.sim])
        ELSE IF sg.kind = "tuple" THEN Done(self, Raise("TypeError", 0, sg.sim))
        ELSE Done(self, RetTensor(Val(<<>>, "sgloss+lamb*regloss", 0, <<>>),
                                  0, sg.sim))

ForwardResult(c, self, a) ==
    CASE c = "UnsupContrastiveLoss" -> UnsupContrastiveLossForward(self, a)
      [] c = "SupContrastiveLoss" -> SupContrastiveLossForward(self, a)
      [] c = "UnsupSimCSE" -> UnsupSimCSEForward(self, a)
      [] c = "SupSimCSE" -> SupSimCSEForward(self, a)
      [] c = "TotalLoss" -> TotalLossForward(self, a)
      [] OTHER -> SubForward(Object(c, self), a)

---------------------------------------------------------------------------
\* The arguments the calls are made with

\* A mask or token-type tensor for input ids of shape s: the same shape, the
\* same elements flattened, or a single element.
MaskShapes(s) == {s, <<Prod(s)>>, <<1>>}

ParamLists == UNION {[1..n -> ShapesOfRank(1)] : n \in 0..MaxLayers}

ForwardArgs(c) ==
    \* a first tensor of any shape with any matrix, or with its like
    CASE c \in {"UnsupContrastiveLoss", "SGLossOpt2"} ->
            {<<T(s), T(t)>> : s \in Shapes, t \in ShapesOfRank(2)}
            \cup {<<T(s), T(s)>> : s \in Shapes}
      [] c = "SupContrastiveLoss" ->
            {<<T(p), T(e), T(n)>> :
                p \in ShapesOfRank(2), e \in ShapesOfRank(2), n \in ShapesOfRank(2)}
      [] c \in {"UnsupSimCSE", "SupSimCSE"} ->
            UNION {{<<T(s), T(m), t>> :
                       m \in MaskShapes(s),
                       t \in {None} \cup {T(x) : x \in MaskShapes(s)}} :
                   s \in Shapes}
      [] c = "UniformSampler" -> {<<T(s)>> : s \in Shapes}
      [] c = "WeightedSampler" ->
            {<<T(s), w>> : s \in Shapes, w \in {None} \cup {W(v) : v \in WeightVals}}
      [] c \in {"SGLossOpt3", "SGLossOpt3Simplified"} ->
            {<<T(s), T(h)>> : s \in ShapesOfRank(1) \cup ShapesOfRank(2), h \in Shapes}
      [] c = "RegLoss" ->
            {<<Params(p), Params(q)>> : p \in ParamLists, q \in ParamLists}
      [] OTHER -> {}

\* The calls whose first outcome is remembered (probe), to compare a later
\* repeat with: every argument a tensor of shape [2, 2] or [2, 2, 2], the
\* weights [1, 1], or omitted.  probe.between tells that a call with other
\* arguments came after it.
IsProbe(a) ==
    \A k \in 1..Len(a) :
        a[k] \in {T(<<2, 2>>), T(<<2, 2, 2>>), W(<<1, 1>>), None}

\* obj(args...) on the object held, of class c, once the caller is done
\* with the previous call's result.
Call(c) ==
    /\ obj.cls = c
    /\ last.op = ""
    /\ \E a \in ForwardArgs(c) :
         LET r == ForwardResult(c, obj.cfg, a)
         IN  /\ obj' = Object(c, r.self)
             /\ last' = [op |-> "forward", cls |-> c, ctor |-> [none |-> TRUE],
                         args |-> a, out |-> r.out]
             /\ probe' = IF ~probe.set /\ IsProbe(a)
                         THEN [set |-> TRUE, args |-> a, out |-> r.out,
                               between |-> FALSE]
                         ELSE IF probe.set /\ a /= probe.args
                         THEN [probe EXCEPT !.between = TRUE]
                         ELSE probe
    /\ UNCHANGED <<pc, loadExc, defined, built>>

CallUnsupContrastiveLoss == Call("UnsupContrastiveLoss")
CallSupContrastiveLoss == Call("SupContrastiveLoss")
CallUnsupSimCSE == Call("UnsupSimCSE")
CallSupSimCSE == Call("SupSimCSE")
CallUniformSampler == Call("UniformSampler")
CallWeightedSampler == Call("WeightedSampler")
CallSGLossOpt2 == Call("SGLossOpt2")
CallSGLossOpt3 == Call("SGLossOpt3")
CallSGLossOpt3Simplified == Call("SGLossOpt3Simplified")

NoCall ==
    [op |-> "", cls |-> "", ctor |-> [none |-> TRUE], args |-> <<>>,
     out |-> Raise("", 0, 0)]

\* The caller drops the result (or handles the exception) of the last call.
Discard ==
    /\ last.op /= ""
    /\ last' = NoCall
    /\ UNCHANGED <<pc, loadExc, defined, obj, built, probe>>

---------------------------------------------------------------------------
\* The specification

Init ==
    /\ pc = 1
    /\ loadExc = ""
    /\ defined = {}
    /\ obj = NoObject
    /\ built = NoObject
    /\ last = NoCall
    /\ probe = NoProbe

Next ==
    \/ ExecStmt
    \/ Construct
    \/ CallUnsupContrastiveLoss
    \/ CallSupContrastiveLoss
    \/ CallUnsupSimCSE
    \/ CallSupSimCSE
    \/ CallUniformSampler
    \/ CallWeightedSampler
    \/ CallSGLossOpt2
    \/ CallSGLossOpt3
    \/ CallSGLossOpt3Simplified
    \/ Discard

Spec == Init /\ [][Next]_vars

---------------------------------------------------------------------------
\* The claims

\* C1: loading the module runs every top-level statement without raising,
\* and once it has ended all thirteen classes are defined and each can be
\* constructed with the arguments its __init__ declares.
C1_ModuleLoads ==
    /\ loadExc = ""
    /\ pc > Len(Stmts) =>
         /\ defined = Classes
         /\ \A c \in Classes :
              \E a \in CtorArgs(c) : ConstructOutcome(c, a).kind = "object"

RankChecked ==
    {"UnsupSimCSE", "SupSimCSE", "UniformSampler", "WeightedSampler",
     "SGLossOpt3", "SGLossOpt3Simplified"}

\* The position of the argument whose rank the forward pass checks.
RankArg(c) == IF c \in {"SGLossOpt3", "SGLossOpt3Simplified"} THEN 2 ELSE 1

\* C2: a forward call of UnsupSimCSE, SupSimCSE, UniformSampler,
\* WeightedSampler, SGLossOpt3 or SGLossOpt3Simplified whose checked
\* argument does not have exactly 3 dimensions raises NotImplementedError,
\* whatever the other arguments, before any encoder call or similarity
\* computation.
C2_RankCheckRaises ==
    (/\ last.op = "forward"
     /\ last.cls \in RankChecked
     /\ Len(last.args[RankArg(last.cls)].shape) /= 3)
    => last.out = Raise("NotImplementedError", 0, 0)

\* C2's case: WeightedSampler called on a matrix with weights omitted.
C2_Witness ==
    /\ last.op = "forward"
    /\ last.cls = "WeightedSampler"
    /\ Len(last.args[1].shape) = 2
    /\ ~last.args[2].given
    /\ last.out.exc = "NotImplementedError"

C4_SupLossReturnsPair ==
    (/\ last.op = "forward"
     /\ last.cls = "SupContrastiveLoss"
     /\ Len(last.args[1].shape) = 2
     /\ last.args[2] = last.args[1]
     /\ last.args[3] = last.args[1])
    => /\ last.out.kind = "tuple"
       /\ last.out.ret[2].shape
            = <<last.args[1].shape[1], 2 * last.args[1].shape[1]>>
       /\ last.out.ret[2].op = "cat(cos_sim/temp)"

\* C5: WeightedSampler.forward(hidden_states, weights) on hidden_states of
\* shape [batch, layer_num, hidden] returns the average over the layers
\* weighted by w, of shape [batch, hidden], where w is the call's weights
\* when given and the constructor's when omitted; a w of another length
\* than layer_num raises NotImplementedError.
C5_WeightedAverage ==
    (/\ last.op = "forward"
     /\ last.cls = "WeightedSampler"
     /\ Len(last.args[1].shape) = 3)
    => LET hidden_states == last.args[1].shape
           w == IF last.args[2].given THEN last.args[2].vals
                ELSE built.cfg.weights
       IN  IF Len(w) /= hidden_states[2]
           THEN last.out = Raise("NotImplementedError", 0, 0)
           ELSE /\ last.out.kind = "tensor"
                /\ last.out.ret[1].shape = <<hidden_states[1], hidden_states[3]>>
                /\ last.out.ret[1].w = w

\* C6: SGLossOpt3.forward(cls, hidden) and SGLossOpt3Simplified.forward,
\* for cls of shape [batch, hidden_dim] and hidden of shape
\* [batch, layer_num, hidden_dim], return a pair (loss, sim).
C6_SGLossReturnsPair ==
    (/\ last.op = "forward"
     /\ last.cls \in {"SGLossOpt3", "SGLossOpt3Simplified"}
     /\ Len(last.args[1].shape) = 2
     /\ Len(last.args[2].shape) = 3
     /\ last.args[1].shape[1] = last.args[2].shape[1]
     /\ last.args[1].shape[2] = last.args[2].shape[3])
    => last.out.kind = "tuple"

\* The number of views each wrapper takes.
Views(c) == IF c = "SupSimCSE" THEN 3 ELSE 2

\* C7: UnsupSimCSE.forward on input_ids and attention_mask of shape
\* [batch, 2, L] with token_type_ids omitted calls the encoder exactly once
\* and returns (loss, sim) without raising; input_ids whose second dimension
\* is not 2 is rejected.  The same for SupSimCSE with 3 views.
C7_SimCSEEncodesOnce ==
    (/\ last.op = "forward"
     /\ last.cls \in {"UnsupSimCSE", "SupSimCSE"}
     /\ Len(last.args[1].shape) = 3
     /\ last.args[2] = last.args[1]
     /\ ~last.args[3].given)
    => IF last.args[1].shape[2] = Views(last.cls)
       THEN /\ last.out.kind = "tuple"
            /\ last.out.enc = 1
       ELSE last.out.kind = "raise"

====
